---- MODULE Spec2Model ----
(***************************************************************************)
(* Model of the oae-fabric cluster upgrade procedures:                     *)
(*   fabfile/cluster/db/__init__.py      upgrade, upgrade_host             *)
(*   fabfile/cluster/search/__init__.py  upgrade, upgrade_host             *)
(* A procedure body is a list of statements: the ensure_sudo_pass() call   *)
(* and the execute(...) calls, each with the hosts/parallel settings in    *)
(* force at the call.  The actions interpret that list the way fabric 1.x  *)
(* runs it: execute() dispatches the task to every host of the host list,  *)
(* serially in list order or as one concurrent job per host, and returns   *)
(* only when every job has returned; a failing operation aborts the run    *)
(* unless warn_only is set.                                                *)
(***************************************************************************)
EXTENDS Integers, Sequences, FiniteSets, TLC

\* ------------------------------------------------------------------ bounds
MaxHosts == 3        \* largest db / search host group
MaxApp == 2          \* largest app host group
MaxAmbient == 2      \* longest ambient host list (fab -H ...)
MaxLiveHosts == 2    \* largest db / search host group of the runs checked for termination

\* ------------------------------------------------------------------- hosts
NoHost == <<"none", 0>>
pp0 == <<"pp", 0>>

RoleHosts(role, n) == [i \in 1..n |-> <<role, i>>]

cluster_hosts_db(n) == RoleHosts("db", n)
cluster_hosts_search(n) == RoleHosts("search", n)
cluster_hosts_app(n) == RoleHosts("app", n)
cluster_hosts_puppet == <<"puppet", 0>>

Range(s) == {s[i] : i \in DOMAIN s}

\* position of host h in the host list hs (0 when absent)
IndexOf(h, hs) == IF h \in Range(hs) THEN CHOOSE i \in DOMAIN hs : hs[i] = h ELSE 0

\* ------------------------------------------------------------------- tasks
\* upgrade_host_internal() stopping the node before draining it
upgrade_host_internal_stop_first ==
    <<"db.stop", "db.drain", "db.start", "db.wait_until_ready", "db.upgradesstables">>

\* a task is the sequence of operations it calls on its host, in order
upgrade_host_internal ==
    <<"db.drain", "db.stop", "db.start", "db.wait_until_ready", "db.upgradesstables">>

\* a task of the operation catalog (puppet, db, search, hilary, apt) is one operation
Task(op) == <<op>>

\* fabric's default for env.warn_only; no settings() block in the two files sets it
env_warn_only == FALSE

\* ------------------------------------------------------------- statements
EnsureSudoPass ==
    [kind |-> "ensure_sudo_pass", task |-> <<>>,
     hosts |-> <<>>, parallel |-> FALSE, warn_only |-> FALSE, raises |-> FALSE]

\* execute(task) under settings(hosts=hosts, parallel=parallel)
Execute(task, hosts, parallel) ==
    [kind |-> "execute", task |-> task, hosts |-> hosts,
     parallel |-> parallel, warn_only |-> env_warn_only, raises |-> FALSE]

\* execute(task) under settings(hosts=[group[0]]): group[0] raises IndexError
\* when the group is empty
ExecuteOnFirst(task, group, parallel) ==
    [kind |-> "execute", task |-> task,
     hosts |-> IF group = <<>> THEN <<>> ELSE <<group[1]>>,
     parallel |-> parallel, warn_only |-> env_warn_only, raises |-> (group = <<>>)]

Opt(b, stmts) == IF b THEN stmts ELSE <<>>

\* db upgrade() with the maintenance phase left in parallel mode
db_upgrade_parallel_maintenance(n) ==
    << EnsureSudoPass,
       Execute(Task("puppet.stop"), cluster_hosts_db(n), TRUE),
       Execute(Task("puppet.git_update"), <<cluster_hosts_puppet>>, TRUE),
       Execute(Task("puppet.run"), cluster_hosts_db(n), TRUE),
       Execute(upgrade_host_internal, cluster_hosts_db(n), TRUE),
       Execute(Task("puppet.start"), cluster_hosts_db(n), TRUE) >>

\* db upgrade() with the maintenance phase run under warn_only
db_upgrade_warn_only_maintenance(n) ==
    << EnsureSudoPass,
       Execute(Task("puppet.stop"), cluster_hosts_db(n), TRUE),
       Execute(Task("puppet.git_update"), <<cluster_hosts_puppet>>, TRUE),
       Execute(Task("puppet.run"), cluster_hosts_db(n), TRUE),
       [Execute(upgrade_host_internal, cluster_hosts_db(n), FALSE) EXCEPT !.warn_only = TRUE],
       Execute(Task("puppet.start"), cluster_hosts_db(n), TRUE) >>

\* db upgrade() asking for the sudo password only after puppet was stopped
db_upgrade_late_sudo_pass(n) ==
    << Execute(Task("puppet.stop"), cluster_hosts_db(n), TRUE),
       EnsureSudoPass,
       Execute(Task("puppet.git_update"), <<cluster_hosts_puppet>>, TRUE),
       Execute(Task("puppet.run"), cluster_hosts_db(n), TRUE),
       Execute(upgrade_host_internal, cluster_hosts_db(n), FALSE),
       Execute(Task("puppet.start"), cluster_hosts_db(n), TRUE) >>

\* db upgrade() running puppet before pulling the configuration
db_upgrade_run_before_pull(n) ==
    << EnsureSudoPass,
       Execute(Task("puppet.stop"), cluster_hosts_db(n), TRUE),
       Execute(Task("puppet.run"), cluster_hosts_db(n), TRUE),
       Execute(Task("puppet.git_update"), <<cluster_hosts_puppet>>, TRUE),
       Execute(upgrade_host_internal, cluster_hosts_db(n), FALSE),
       Execute(Task("puppet.start"), cluster_hosts_db(n), TRUE) >>

\* db upgrade() stopping puppet on the first db host only
db_upgrade_stop_first_host(n) ==
    << EnsureSudoPass,
       ExecuteOnFirst(Task("puppet.stop"), cluster_hosts_db(n), TRUE),
       Execute(Task("puppet.git_update"), <<cluster_hosts_puppet>>, TRUE),
       Execute(Task("puppet.run"), cluster_hosts_db(n), TRUE),
       Execute(upgrade_host_internal, cluster_hosts_db(n), FALSE),
       Execute(Task("puppet.start"), cluster_hosts_db(n), TRUE) >>

\* db upgrade() that does not start puppet again
db_upgrade_without_puppet_start(n) ==
    << EnsureSudoPass,
       Execute(Task("puppet.stop"), cluster_hosts_db(n), TRUE),
       Execute(Task("puppet.git_update"), <<cluster_hosts_puppet>>, TRUE),
       Execute(Task("puppet.run"), cluster_hosts_db(n), TRUE),
       Execute(upgrade_host_internal, cluster_hosts_db(n), FALSE) >>

\* cluster/db upgrade(): n is the size of the db group
db_upgrade(n) ==
    << EnsureSudoPass,
       Execute(Task("puppet.stop"), cluster_hosts_db(n), TRUE),
       Execute(Task("puppet.git_update"), <<cluster_hosts_puppet>>, TRUE),
       Execute(Task("puppet.run"), cluster_hosts_db(n), TRUE),
       Execute(upgrade_host_internal, cluster_hosts_db(n), FALSE),
       Execute(Task("puppet.start"), cluster_hosts_db(n), TRUE) >>

\* db upgrade_host() without the puppet run
db_upgrade_host_without_puppet_run(hosts, parallel) ==
    << EnsureSudoPass,
       Execute(Task("puppet.stop"), hosts, parallel),
       Execute(upgrade_host_internal, hosts, parallel),
       Execute(Task("puppet.start"), hosts, parallel) >>

\* db upgrade_host() with the maintenance task run under warn_only
db_upgrade_host_warn_only_maintenance(hosts, parallel) ==
    << EnsureSudoPass,
       Execute(Task("puppet.stop"), hosts, parallel),
       Execute(Task("puppet.run"), hosts, parallel),
       [Execute(upgrade_host_internal, hosts, parallel) EXCEPT !.warn_only = TRUE],
       Execute(Task("puppet.start"), hosts, parallel) >>

\* cluster/db upgrade_host(): every execute() runs under the ambient env
db_upgrade_host(hosts, parallel) ==
    << EnsureSudoPass,
       Execute(Task("puppet.stop"), hosts, parallel),
       Execute(Task("puppet.run"), hosts, parallel),
       Execute(upgrade_host_internal, hosts, parallel),
       Execute(Task("puppet.start"), hosts, parallel) >>

\* the delete_index block run against the whole search group
search_upgrade_delete_index_all_hosts(n, parallel) ==
    << Execute(Task("search.delete_index"), cluster_hosts_search(n), parallel) >>

\* search upgrade(), "If we're deleting the data, clear index": first search host
search_upgrade_delete_index(n, parallel) ==
    << ExecuteOnFirst(Task("search.delete_index"), cluster_hosts_search(n), parallel) >>

\* the uninstall block without the package update
search_upgrade_uninstall_without_update(n) ==
    << Execute(Task("search.uninstall"), cluster_hosts_search(n), TRUE) >>

\* the uninstall block with both operations done by one task per host
search_upgrade_one_uninstall_task(n) ==
    << Execute(<<"search.uninstall", "apt.update">>, cluster_hosts_search(n), TRUE) >>

\* search upgrade(), "Uninstall ElasticSearch if the option has not been disabled"
search_upgrade_uninstall(n) ==
    << Execute(Task("search.uninstall"), cluster_hosts_search(n), TRUE),
       Execute(Task("apt.update"), cluster_hosts_search(n), TRUE) >>

\* the shutdown / puppet / start blocks with search.stop run one host at a time
search_upgrade_serial_stop(n) ==
    << Execute(Task("search.stop"), cluster_hosts_search(n), FALSE),
       Execute(Task("puppet.run"), cluster_hosts_search(n), TRUE),
       Execute(Task("search.start"), cluster_hosts_search(n), TRUE) >>

\* a rolling restart: each host is stopped, configured and started by one task
search_upgrade_rolling_restart(n) ==
    << Execute(<<"search.stop", "puppet.run", "search.start">>, cluster_hosts_search(n), TRUE) >>

\* the shutdown / puppet / start blocks with search.stop run under warn_only
search_upgrade_warn_only_stop(n) ==
    << [Execute(Task("search.stop"), cluster_hosts_search(n), TRUE) EXCEPT !.warn_only = TRUE],
       Execute(Task("puppet.run"), cluster_hosts_search(n), TRUE),
       Execute(Task("search.start"), cluster_hosts_search(n), TRUE) >>

\* search upgrade(), "Bring the full cluster down" and "Run puppet on the search
\* nodes and ensure they come back up"
search_upgrade_restart(n) ==
    << Execute(Task("search.stop"), cluster_hosts_search(n), TRUE),
       Execute(Task("puppet.run"), cluster_hosts_search(n), TRUE),
       Execute(Task("search.start"), cluster_hosts_search(n), TRUE) >>

\* the rebuild_index block run against the whole app group
search_upgrade_rebuild_index_all_app(a, parallel) ==
    << Execute(Task("hilary.stop"), cluster_hosts_app(a), parallel),
       Execute(Task("hilary.start"), cluster_hosts_app(a), parallel),
       Execute(Task("hilary.wait_until_ready"), cluster_hosts_app(a), parallel) >>

\* search upgrade(), "bounce an app server": first app host
search_upgrade_rebuild_index(a, parallel) ==
    << ExecuteOnFirst(Task("hilary.stop"), cluster_hosts_app(a), parallel),
       ExecuteOnFirst(Task("hilary.start"), cluster_hosts_app(a), parallel),
       ExecuteOnFirst(Task("hilary.wait_until_ready"), cluster_hosts_app(a), parallel) >>

\* cluster/search upgrade(): n search hosts, a app hosts, o the task options,
\* parallel the ambient env.parallel (used where settings() does not set it)
search_upgrade(n, a, o, parallel) ==
    << EnsureSudoPass,
       Execute(Task("puppet.stop"), cluster_hosts_search(n), TRUE),
       Execute(Task("puppet.git_update"), <<cluster_hosts_puppet>>, TRUE) >>
    \o Opt(o.delete_index, search_upgrade_delete_index(n, parallel))
    \o Opt(o.uninstall, search_upgrade_uninstall(n))
    \o search_upgrade_restart(n)
    \o Opt(o.rebuild_index, search_upgrade_rebuild_index(a, parallel))
    \o << Execute(Task("puppet.start"), cluster_hosts_search(n), TRUE) >>

\* search upgrade_host() bouncing hilary without the settings(hosts=...) block
search_upgrade_host_bounce_on_env_hosts(hosts, o, parallel) ==
    << EnsureSudoPass,
       Execute(Task("puppet.stop"), hosts, parallel) >>
    \o Opt(o.delete_index, << Execute(Task("search.delete_index"), hosts, parallel) >>)
    \o Opt(o.uninstall, << Execute(Task("search.uninstall"), hosts, parallel) >>)
    \o << Execute(Task("search.stop"), hosts, parallel),
          Execute(Task("puppet.run"), hosts, parallel),
          Execute(Task("search.start"), hosts, parallel) >>
    \o Opt(o.rebuild_index,
       << Execute(Task("hilary.stop"), hosts, parallel),
          Execute(Task("hilary.start"), hosts, parallel),
          Execute(Task("hilary.wait_until_ready"), hosts, parallel) >>)
    \o << Execute(Task("puppet.start"), hosts, parallel) >>

\* cluster/search upgrade_host()
search_upgrade_host(hosts, o, parallel) ==
    << EnsureSudoPass,
       Execute(Task("puppet.stop"), hosts, parallel) >>
    \o Opt(o.delete_index, << Execute(Task("search.delete_index"), hosts, parallel) >>)
    \o Opt(o.uninstall, << Execute(Task("search.uninstall"), hosts, parallel) >>)
    \o << Execute(Task("search.stop"), hosts, parallel),
          Execute(Task("puppet.run"), hosts, parallel),
          Execute(Task("search.start"), hosts, parallel) >>
    \o Opt(o.rebuild_index,
       << Execute(Task("hilary.stop"), <<o.hilary_reboot_host>>, parallel),
          Execute(Task("hilary.start"), <<o.hilary_reboot_host>>, parallel),
          Execute(Task("hilary.wait_until_ready"), <<o.hilary_reboot_host>>, parallel) >>)
    \o << Execute(Task("puppet.start"), hosts, parallel) >>

\* ------------------------------------------------------------------- state
VARIABLES
    proc,             \* the procedure the operator invoked
    opts,             \* its task options
    ntarget,          \* size of the db / search host group
    napp,             \* size of the app host group
    env_hosts,        \* ambient host list (env.hosts)
    env_parallel,     \* ambient env.parallel
    inv,              \* index of the current top-level invocation of the task
    has_return_value, \* runs_once: the body has already run
    status,           \* "main" | "body" | "aborted"
    pc,               \* index of the next statement of the body
    jobs,             \* the jobs of the execute() in progress, one per host
    log,              \* the dispatched operations, in call order
    failed,           \* the operations that failed, with statement and host
    cred_calls,       \* number of ensure_sudo_pass() calls so far
    password          \* the cached sudo password is set

vars == <<proc, opts, ntarget, napp, env_hosts, env_parallel, inv, has_return_value,
          status, pc, jobs, log, failed, cred_calls, password>>

config == <<proc, opts, ntarget, napp, env_hosts, env_parallel>>

Procs == {"db.upgrade", "db.upgrade_host", "search.upgrade", "search.upgrade_host"}

IsHostProc == proc \in {"db.upgrade_host", "search.upgrade_host"}

TargetRole(p) == IF p \in {"db.upgrade", "db.upgrade_host"} THEN "db" ELSE "search"

TargetGroup == RoleHosts(TargetRole(proc), ntarget)

DefaultOpts ==
    [delete_index |-> FALSE, rebuild_index |-> FALSE, uninstall |-> TRUE,
     hilary_reboot_host |-> pp0]

\* the statements of the invoked procedure
Body ==
    CASE proc = "db.upgrade" -> db_upgrade(ntarget)
      [] proc = "db.upgrade_host" -> db_upgrade_host(env_hosts, env_parallel)
      [] proc = "search.upgrade" -> search_upgrade(ntarget, napp, opts, env_parallel)
      [] proc = "search.upgrade_host" -> search_upgrade_host(env_hosts, opts, env_parallel)

\* fab runs the task once per ambient host, or once when there is none
NInv == IF env_hosts = <<>> THEN 1 ELSE Len(env_hosts)

host_string == IF env_hosts = <<>> \/ inv > Len(env_hosts) THEN NoHost ELSE env_hosts[inv]

\* host lists of up to MaxAmbient distinct hosts of the group g
HostLists(g) ==
    {s \in UNION {[1..k -> Range(g)] : k \in 1..MaxAmbient} :
        \A i, j \in DOMAIN s : i # j => s[i] # s[j]}

\* the ambient host lists of a run: a single-host procedure is given its target
\* host(s) with fab -H; a cluster procedure needs none, and is run once per host
\* when there are some
AmbientLists(g, hostproc) ==
    IF hostproc THEN HostLists(g)
    ELSE {[i \in 1..k |-> g[i]] : k \in {j \in 0..MaxAmbient : j <= Len(g)}}

\* the hilary_reboot_host argument: the default, or an app host the caller names
RebootHosts(p) == IF p = "search.upgrade_host" THEN {pp0, <<"app", 1>>} ELSE {pp0}

\* the runs whose host groups have at least min hosts, the db / search group
\* at most max
InitGroups(min, max) ==
    /\ proc \in Procs
    /\ ntarget \in min..max
    /\ napp \in IF proc = "search.upgrade" THEN min..MaxApp ELSE {1}
    /\ opts \in IF TargetRole(proc) = "db" THEN {DefaultOpts}
                ELSE [delete_index : BOOLEAN, rebuild_index : BOOLEAN, uninstall : BOOLEAN,
                      hilary_reboot_host : RebootHosts(proc)]
    /\ env_hosts \in AmbientLists(TargetGroup, IsHostProc)
    /\ env_parallel \in BOOLEAN
    /\ inv = 1
    /\ has_return_value = FALSE
    /\ status = "main"
    /\ pc = 0
    /\ jobs = <<>>
    /\ log = <<>>
    /\ failed = {}
    /\ cred_calls = 0
    /\ password = FALSE

\* every host group has a host
Init == InitGroups(1, MaxHosts)

\* a host group may have resolved to no host at all
InitAnyGroups == InitGroups(0, MaxHosts)

\* the runs checked for termination
InitLive == InitGroups(1, MaxLiveHosts)


\* ------------------------------------------------------ fabric's execute()
\* execute() runs one job per host of the host list; with no host list the
\* task runs once, under the host of the enclosing invocation
all_hosts(stmt) == IF stmt.hosts = <<>> THEN <<host_string>> ELSE stmt.hosts

\* no task of the two files carries a @parallel or @serial marker of its own
requires_parallel(stmt) == stmt.parallel

Finished == {"ok", "failed"}

\* record the call of operation op on host h by statement k: calls of one
\* operation by one statement share a log entry
Dispatch(l, k, op, h, par) ==
    IF l # <<>> /\ l[Len(l)].stmt = k /\ l[Len(l)].op = op
    THEN [l EXCEPT ![Len(l)].hosts = @ \cup {h}, ![Len(l)].n = @ + 1]
    ELSE Append(l, [stmt |-> k, op |-> op, hosts |-> {h}, n |-> 1, parallel |-> par])

InBody == status = "body" /\ pc \in DOMAIN Body

\* the task without @runs_once: every call runs the body
runs_once_missing ==
    /\ status = "main"
    /\ inv <= NInv
    /\ status' = "body"
    /\ pc' = 1
    /\ UNCHANGED <<config, inv, has_return_value, jobs, log, failed, cred_calls, password>>

\* fab calls the @runs_once task once per ambient host
runs_once ==
    /\ status = "main"
    /\ inv <= NInv
    /\ IF has_return_value
       THEN inv' = inv + 1 /\ UNCHANGED <<status, pc>>
       ELSE status' = "body" /\ pc' = 1 /\ UNCHANGED inv
    /\ UNCHANGED <<config, has_return_value, jobs, log, failed, cred_calls, password>>

\* cluster_util.ensure_sudo_pass(): obtains the password or aborts the run
ensure_sudo_pass ==
    /\ InBody
    /\ Body[pc].kind = "ensure_sudo_pass"
    /\ cred_calls' = cred_calls + 1
    /\ \E ok \in BOOLEAN :
          IF ok \/ password
          THEN password' = TRUE /\ pc' = pc + 1 /\ UNCHANGED status
          ELSE status' = "aborted" /\ UNCHANGED <<pc, password>>
    /\ UNCHANGED <<config, inv, has_return_value, jobs, log, failed>>

\* execute(task): set up one job per host; an error in the settings aborts the run
execute_begin ==
    /\ InBody
    /\ Body[pc].kind = "execute"
    /\ jobs = <<>>
    /\ IF Body[pc].raises
       THEN status' = "aborted" /\ UNCHANGED jobs
       ELSE /\ LET hs == all_hosts(Body[pc])
               IN jobs' = [i \in DOMAIN hs |-> [host |-> hs[i], st |-> "pending", step |-> 1]]
            /\ UNCHANGED status
    /\ UNCHANGED <<config, inv, has_return_value, pc, log, failed, cred_calls, password>>

\* the job of host i calls its next operation
StartStep(i) ==
    /\ InBody
    /\ i \in DOMAIN jobs
    /\ jobs[i].st \in {"pending", "ready"}
    /\ requires_parallel(Body[pc]) \/ \A j \in 1..(i - 1) : jobs[j].st \in Finished
    /\ jobs' = [jobs EXCEPT ![i].st = "running"]
    /\ log' = Dispatch(log, pc, Body[pc].task[jobs[i].step], jobs[i].host,
                       requires_parallel(Body[pc]))
    /\ UNCHANGED <<config, inv, has_return_value, status, pc, failed, cred_calls, password>>

\* the operation running on host i returns or fails
FinishStep(i) ==
    /\ InBody
    /\ i \in DOMAIN jobs
    /\ jobs[i].st = "running"
    /\ LET stmt == Body[pc]
           ops == stmt.task
           last == jobs[i].step = Len(ops)
           f == [stmt |-> pc, op |-> ops[jobs[i].step], host |-> jobs[i].host]
       IN \E ok \in BOOLEAN :
            /\ failed' = IF ok THEN failed ELSE failed \cup {f}
            /\ IF ok \/ stmt.warn_only
               THEN /\ jobs' = [jobs EXCEPT ![i].st = IF last THEN "ok" ELSE "ready",
                                            ![i].step = IF last THEN @ ELSE @ + 1]
                    /\ UNCHANGED status
               ELSE /\ jobs' = [jobs EXCEPT ![i].st = "failed"]
                    /\ status' = IF requires_parallel(stmt) THEN status ELSE "aborted"
    /\ UNCHANGED <<config, inv, has_return_value, pc, log, cred_calls, password>>

\* execute() returns once every job has returned; a failed job aborts the run
execute_return ==
    /\ InBody
    /\ jobs # <<>>
    /\ \A i \in DOMAIN jobs : jobs[i].st \in Finished
    /\ IF \E i \in DOMAIN jobs : jobs[i].st = "failed"
       THEN status' = "aborted" /\ UNCHANGED <<pc, jobs>>
       ELSE pc' = pc + 1 /\ jobs' = <<>> /\ UNCHANGED status
    /\ UNCHANGED <<config, inv, has_return_value, log, failed, cred_calls, password>>

\* the body returns: runs_once keeps the return value
body_return ==
    /\ status = "body"
    /\ pc = Len(Body) + 1
    /\ has_return_value' = TRUE
    /\ status' = "main"
    /\ inv' = inv + 1
    /\ UNCHANGED <<config, pc, jobs, log, failed, cred_calls, password>>

Next ==
    \/ runs_once
    \/ ensure_sudo_pass
    \/ execute_begin
    \/ \E i \in DOMAIN jobs : StartStep(i)
    \/ \E i \in DOMAIN jobs : FinishStep(i)
    \/ execute_return
    \/ body_return

Spec == Init /\ [][Next]_vars

SpecAnyGroups == InitAnyGroups /\ [][Next]_vars

\* the program is sequential and every operation returns or fails: a step
\* that can be taken is taken
FairSpec == InitLive /\ [][Next]_vars /\ WF_vars(Next)

Done == status = "main" /\ inv > NInv

\* ================================================================== claims
Last(l) == l[Len(l)]

InExecute == InBody /\ jobs # <<>>

\* the operation job i is at
CurOp(i) == Body[pc].task[jobs[i].step]

MaintenanceOps == Range(upgrade_host_internal)

\* job i has started the maintenance sub-sequence and not left it
InMaintenance(i) ==
    /\ Body[pc].task = upgrade_host_internal
    /\ jobs[i].st \in {"running", "ready"}

\* C1: in db upgrade the maintenance sub-sequence is dispatched serially: at
\* most one db host is between the start of its drain and the end of its
\* upgradesstables, and the hosts enter the sub-sequence in host-group order.
C1_SerialMaintenance ==
    (proc = "db.upgrade" /\ pc \in DOMAIN Body /\ Body[pc].task = upgrade_host_internal) =>
        /\ Cardinality({i \in DOMAIN jobs : InMaintenance(i)}) <= 1
        /\ \A i \in DOMAIN jobs : jobs[i].host = cluster_hosts_db(ntarget)[i]
        /\ \A i, j \in DOMAIN jobs :
              (i < j /\ jobs[j].st # "pending") => jobs[i].st \in Finished

C1_Witness ==
    /\ proc = "db.upgrade"
    /\ InExecute
    /\ Len(jobs) >= 2
    /\ jobs[1].st = "ok"
    /\ InMaintenance(2)
    /\ CurOp(2) = "db.start"

\* C2: in the serial maintenance phase of db upgrade, once an operation has
\* failed on host k no operation of the phase is dispatched to a later host.
C2_SerialFailureStops ==
    proc = "db.upgrade" =>
        \A f \in failed : f.op \in MaintenanceOps =>
            \A k \in DOMAIN log : log[k].op \in MaintenanceOps =>
                \A h \in log[k].hosts :
                    IndexOf(h, cluster_hosts_db(ntarget)) <= IndexOf(f.host, cluster_hosts_db(ntarget))

C2_Witness ==
    /\ proc = "db.upgrade"
    /\ ntarget >= 3
    /\ status = "aborted"
    /\ \E f \in failed : f.op = "db.stop" /\ f.host = cluster_hosts_db(ntarget)[2]

\* C3: once an operation of a phase has failed, no operation of a later phase
\* is dispatched (in particular puppet.start is not run after an earlier
\* failure), the run never completes, and the log only ever holds the
\* procedure's own operations in statement order (nothing is rolled back).
C3_FailureAbortsLaterPhases ==
    /\ \A f \in failed : \A k \in DOMAIN log : log[k].stmt <= f.stmt
    /\ (\E f \in failed : f.op # "puppet.start") =>
            \A k \in DOMAIN log : log[k].op # "puppet.start"
    /\ failed # {} => (~has_return_value /\ status # "main")
    /\ \A k \in DOMAIN log :
          /\ log[k].stmt \in DOMAIN Body
          /\ log[k].op \in Range(Body[log[k].stmt].task)
          /\ k > 1 => log[k - 1].stmt <= log[k].stmt

C3_Witness ==
    /\ proc = "search.upgrade"
    /\ ntarget >= 2
    /\ status = "aborted"
    /\ \E f \in failed : f.op = "search.stop"
    /\ \A i \in DOMAIN jobs : jobs[i].st \in Finished
    /\ \E i \in DOMAIN jobs : jobs[i].st = "ok"

\* every operation of statement k has been dispatched to every host of the statement
StmtComplete(k) ==
    \A op \in Range(Body[k].task) :
        UNION {log[j].hosts : j \in {x \in DOMAIN log : log[x].stmt = k /\ log[x].op = op}}
            = Range(all_hosts(Body[k]))

\* C4: phases never overlap: an operation that is running belongs to the
\* statement dispatched last, every earlier statement has been dispatched to
\* every host of its group and has returned there, and in the cluster-wide
\* procedures all running operations are the same operation.
C4_PhasesNeverOverlap ==
    /\ \A i \in DOMAIN jobs : jobs[i].st = "running" =>
          /\ log # <<>>
          /\ Last(log).stmt = pc
          /\ jobs[i].host \in UNION {log[k].hosts : k \in {x \in DOMAIN log : log[x].stmt = pc}}
          /\ ~IsHostProc => (Last(log).op = CurOp(i) /\ jobs[i].host \in Last(log).hosts)
    /\ \A k \in DOMAIN log : log[k].stmt < Last(log).stmt => StmtComplete(log[k].stmt)

C4_Witness ==
    /\ proc = "search.upgrade"
    /\ opts.uninstall
    /\ ntarget >= 2
    /\ InExecute
    /\ log # <<>>
    /\ Last(log).op = "apt.update"
    /\ jobs[1].st = "ok"
    /\ jobs[2].st = "running"

\* C5: ensure_sudo_pass is called exactly once per run, before any remote
\* operation; when it fails no operation is ever dispatched.
C5_SudoPassOnceAndFirst ==
    /\ cred_calls <= 1
    /\ (log # <<>> \/ jobs # <<>>) => (cred_calls = 1 /\ password)
    /\ (status = "aborted" /\ ~password) => (cred_calls = 1 /\ log = <<>>)
    /\ has_return_value => cred_calls = 1

C5_Witness ==
    /\ Done
    /\ Len(env_hosts) = 2
    /\ cred_calls = 1
    /\ log # <<>>

\* the log as (operation, hosts) pairs
Calls(l) == [k \in DOMAIN l |-> [op |-> l[k].op, hosts |-> l[k].hosts]]

IsPrefix(a, b) == Len(a) <= Len(b) /\ \A k \in DOMAIN a : a[k] = b[k]

\* the log l follows the call order e: same operations in the same order, the
\* hosts dispatched so far among the expected ones, no host dispatched twice
Follows(l, e) ==
    /\ Len(l) <= Len(e)
    /\ \A k \in DOMAIN l :
          /\ l[k].op = e[k].op
          /\ l[k].hosts \subseteq e[k].hosts
          /\ l[k].n = Cardinality(l[k].hosts)
          /\ k < Len(l) => l[k].hosts = e[k].hosts

DbSet == Range(RoleHosts("db", ntarget))
SearchSet == Range(RoleHosts("search", ntarget))

\* the maintenance sub-sequence as the specification lists it
MaintenanceOrder ==
    <<"db.drain", "db.stop", "db.start", "db.wait_until_ready", "db.upgradesstables">>

\* the sub-sequence on host 1, then on host 2, ... of the db group
MaintenanceCalls ==
    [k \in 1..(5 * ntarget) |->
        [op |-> MaintenanceOrder[((k - 1) % 5) + 1],
         hosts |-> {<<"db", ((k - 1) \div 5) + 1>>}]]

DbUpgradeCalls ==
    << [op |-> "puppet.stop", hosts |-> DbSet],
       [op |-> "puppet.git_update", hosts |-> {<<"puppet", 0>>}],
       [op |-> "puppet.run", hosts |-> DbSet] >>
    \o MaintenanceCalls
    \o << [op |-> "puppet.start", hosts |-> DbSet] >>

\* C6: phases run in the fixed order, none skipped: the log visits the
\* statements of the body one after the other, and a db upgrade that succeeds
\* has called exactly stop-agent (db group), pull-config (puppet host),
\* apply-config (db group), the maintenance sub-sequence host by host, and
\* start-agent (db group), in that order.
C6_DbUpgradeOrder ==
    /\ \A k \in DOMAIN log :
          log[k].stmt - (IF k = 1 THEN 1 ELSE log[k - 1].stmt) \in {0, 1}
    /\ proc = "db.upgrade" =>
          /\ Follows(log, DbUpgradeCalls)
          /\ has_return_value => Calls(log) = DbUpgradeCalls

C6_Witness ==
    /\ proc = "db.upgrade"
    /\ ntarget >= 2
    /\ Done
    /\ Len(log) = 4 + 5 * ntarget

ScenarioA ==
    /\ proc = "search.upgrade"
    /\ ~opts.delete_index /\ ~opts.rebuild_index /\ opts.uninstall
    /\ ntarget = 3
    /\ napp = 1

ScenarioACalls ==
    LET P(op, hs) == [op |-> op, hosts |-> hs, n |-> Cardinality(hs), parallel |-> TRUE]
    IN << P("puppet.stop", SearchSet),
          P("puppet.git_update", {<<"puppet", 0>>}),
          P("search.uninstall", SearchSet),
          P("apt.update", SearchSet),
          P("search.stop", SearchSet),
          P("puppet.run", SearchSet),
          P("search.start", SearchSet),
          P("puppet.start", SearchSet) >>

\* C7: scenario A (search upgrade, delete_index and rebuild_index off,
\* uninstall on, 3 search hosts, 1 app host): the calls are exactly stop-agent,
\* pull-config, uninstall, package-update, stop-service, apply-config,
\* start-service, start-agent, each in parallel mode on the 3 search hosts
\* (pull-config on the puppet host); no index deletion, no app-node call.
C7_ScenarioA ==
    ScenarioA =>
        /\ Follows(log, ScenarioACalls)
        /\ \A k \in DOMAIN log : log[k].parallel
        /\ has_return_value =>
              [k \in DOMAIN log |-> [op |-> log[k].op, hosts |-> log[k].hosts,
                                     n |-> log[k].n, parallel |-> log[k].parallel]]
                  = ScenarioACalls
        /\ \A k \in DOMAIN log :
              /\ log[k].op \notin {"search.delete_index", "hilary.stop", "hilary.start",
                                   "hilary.wait_until_ready"}
              /\ \A h \in log[k].hosts : h[1] # "app"

C7_Witness == ScenarioA /\ Done /\ Len(log) = 8

Entries(ops) == {k \in DOMAIN log : log[k].op \in ops}

\* the single-host procedures are given one target host
SingleTarget == IsHostProc => Len(env_hosts) = 1

\* C8: in the search procedures, delete_index off: search.delete_index is never
\* called; delete_index on: it is called at most once, on one host, it has
\* returned before search.uninstall or puppet.run is called on any host, and a
\* run that gets that far has called it exactly once.
C8_ConditionalDeleteIndex ==
    (TargetRole(proc) = "search" /\ SingleTarget) =>
        /\ ~opts.delete_index => Entries({"search.delete_index"}) = {}
        /\ opts.delete_index =>
              /\ Cardinality(Entries({"search.delete_index"})) <= 1
              /\ \A k \in Entries({"search.delete_index"}) : log[k].n = 1
              /\ \A k \in Entries({"search.uninstall", "puppet.run"}) :
                    \E j \in Entries({"search.delete_index"}) :
                        /\ j < k
                        /\ log[j].stmt < pc
                        /\ \A f \in failed : f.op # "search.delete_index"
              /\ has_return_value => Cardinality(Entries({"search.delete_index"})) = 1

C8_Witness ==
    /\ proc = "search.upgrade"
    /\ opts.delete_index /\ opts.uninstall
    /\ ntarget >= 2
    /\ Done
    /\ \E k \in Entries({"search.delete_index"}) : log[k].hosts = {<<"search", 1>>}

HilaryOps == {"hilary.stop", "hilary.start", "hilary.wait_until_ready"}

\* C9: in search upgrade, rebuild_index on: hilary.stop, hilary.start and
\* hilary.wait_until_ready are called in that order, each once, on one and the
\* same host of the app group, after search.start has returned on every search
\* host and before puppet.start is called; rebuild_index off: no app-node
\* operation is ever called.
C9_RebuildBounce ==
    proc = "search.upgrade" =>
        /\ ~opts.rebuild_index =>
              \A k \in DOMAIN log : log[k].op \notin HilaryOps /\ \A h \in log[k].hosts : h[1] # "app"
        /\ opts.rebuild_index =>
              /\ \A op \in HilaryOps : Cardinality(Entries({op})) <= 1
              /\ \A k \in Entries(HilaryOps) :
                    /\ log[k].n = 1
                    /\ \E h \in Range(RoleHosts("app", napp)) : log[k].hosts = {h}
                    /\ \A j \in Entries(HilaryOps) : log[j].hosts = log[k].hosts
                    /\ \E j \in Entries({"search.start"}) :
                          j < k /\ log[j].hosts = SearchSet /\ log[j].stmt < pc
                    /\ log[k].op = "hilary.start" =>
                          \E j \in Entries({"hilary.stop"}) : j < k /\ log[j].stmt < pc
                    /\ log[k].op = "hilary.wait_until_ready" =>
                          \E j \in Entries({"hilary.start"}) : j < k /\ log[j].stmt < pc
              /\ \A k \in Entries({"puppet.start"}) :
                    \E j \in Entries({"hilary.wait_until_ready"}) : j < k /\ log[j].stmt < pc

C9_Witness ==
    /\ proc = "search.upgrade"
    /\ opts.rebuild_index
    /\ napp >= 2
    /\ ntarget >= 2
    /\ Done
    /\ Entries({"hilary.wait_until_ready"}) # {}

IsMaintenanceCall(e) == e.op \in Range(MaintenanceOrder)

\* C10: scenario C (db upgrade_host with the one target host h): the
\* maintenance calls are drain, stop, start, wait_until_ready, upgradesstables
\* on h, in that order, and no operation of the run is called on another host.
C10_ScenarioC ==
    (proc = "db.upgrade_host" /\ Len(env_hosts) = 1) =>
        LET h == env_hosts[1]
            m == SelectSeq(Calls(log), IsMaintenanceCall)
            e == [k \in 1..5 |-> [op |-> MaintenanceOrder[k], hosts |-> {h}]]
        IN /\ \A k \in DOMAIN log : log[k].hosts = {h} /\ log[k].n = 1
           /\ IsPrefix(m, e)
           /\ has_return_value => m = e

C10_Witness ==
    /\ proc = "db.upgrade_host"
    /\ env_hosts = << <<"db", 3>> >>
    /\ Done
    /\ Len(log) = 8

\* the operation names a body calls on one host, in order
RECURSIVE OpNames(_)
OpNames(body) == IF body = <<>> THEN <<>> ELSE Head(body).task \o OpNames(Tail(body))

LogOps == [k \in DOMAIN log |-> log[k].op]

\* the cluster-wide procedure of the same service, every group one host
ClusterOps ==
    IF TargetRole(proc) = "db" THEN OpNames(db_upgrade(1))
    ELSE OpNames(search_upgrade(1, 1, opts, env_parallel))

NotHostOmitted(op) == op \notin {"puppet.git_update", "apt.update"}

\* C11 as stated: a completed single-host upgrade has called the same sequence
\* of operations as the cluster-wide upgrade of the service, pull-config and
\* package-update included.
C11_Original ==
    (IsHostProc /\ SingleTarget /\ has_return_value) => LogOps = ClusterOps

\* C11 amended: a completed single-host upgrade has called the operations of
\* the cluster-wide upgrade of the service, in the same order, except
\* puppet.git_update and apt.update, which upgrade_host never calls; a
\* completed cluster-wide upgrade of a one-host group has called all of them.
C11_HostUpgradePhaseList ==
    /\ (IsHostProc /\ SingleTarget /\ has_return_value) =>
          LogOps = SelectSeq(ClusterOps, NotHostOmitted)
    /\ (IsHostProc /\ SingleTarget) =>
          \A k \in DOMAIN log : NotHostOmitted(log[k].op)
    /\ (~IsHostProc /\ ntarget = 1 /\ has_return_value) => LogOps = ClusterOps

C11_Witness ==
    /\ proc = "search.upgrade_host"
    /\ opts.uninstall /\ opts.delete_index /\ opts.rebuild_index
    /\ Len(env_hosts) = 1
    /\ Done
    /\ Len(log) = 10

\* the operations the cluster-wide procedures dispatch with parallel=True
ParallelPhaseOps ==
    {"puppet.stop", "puppet.git_update", "search.uninstall", "apt.update", "search.stop",
     "puppet.run", "search.start", "puppet.start"}

\* C12: when an operation of a parallel phase of a cluster-wide procedure has
\* failed on a host, the run is aborted only after every job of the phase has
\* been dispatched and has returned (no sibling is cancelled or left out), the
\* run does not complete, and no operation of a later phase is dispatched.
C12_ParallelFailure ==
    ~IsHostProc =>
        \A f \in failed : f.op \in ParallelPhaseOps =>
            /\ pc = f.stmt
            /\ status \in {"body", "aborted"}
            /\ ~has_return_value
            /\ \A k \in DOMAIN log : log[k].stmt <= f.stmt
            /\ status = "aborted" =>
                  /\ \A i \in DOMAIN jobs : jobs[i].st \in Finished
                  /\ Last(log).hosts = {jobs[i].host : i \in DOMAIN jobs}
                  /\ Last(log).n = Len(jobs)

C12_Witness ==
    /\ proc = "search.upgrade"
    /\ InExecute
    /\ CurOp(1) = "search.stop"
    /\ Len(jobs) >= 3
    /\ jobs[1].st = "failed"
    /\ jobs[2].st = "running"
    /\ jobs[3].st = "ok"

\* the group a parallel phase of a cluster-wide procedure is resolved to
PhaseGroup(op) ==
    IF op = "puppet.git_update" THEN {<<"puppet", 0>>}
    ELSE Range(RoleHosts(TargetRole(proc), ntarget))

\* C13: a parallel phase of a cluster-wide procedure dispatches its operation
\* to hosts of its group only, to no host twice, and once the procedure is
\* past the phase the operation was dispatched to every host of the group and
\* has returned everywhere; no statement is passed without a dispatch.
C13_ParallelExactlyOnce ==
    ~IsHostProc =>
        /\ \A k \in DOMAIN log : log[k].op \in ParallelPhaseOps =>
              /\ log[k].parallel
              /\ log[k].hosts \subseteq PhaseGroup(log[k].op)
              /\ log[k].n = Cardinality(log[k].hosts)
              /\ (k < Len(log) \/ pc > log[k].stmt) => log[k].hosts = PhaseGroup(log[k].op)
              /\ (k < Len(log) \/ pc > log[k].stmt) =>
                    \A i \in DOMAIN jobs : jobs[i].st = "running" => pc > log[k].stmt
        /\ \A j \in 2..(pc - 1) : j \in DOMAIN Body => \E k \in DOMAIN log : log[k].stmt = j

C13_Witness ==
    /\ proc = "db.upgrade"
    /\ ntarget = MaxHosts
    /\ pc = 3
    /\ Len(log) = 1
    /\ log[1].op = "puppet.stop"
    /\ log[1].hosts = DbSet
    /\ log[1].n = MaxHosts

\* C14: when the target group of a cluster-wide procedure resolves to no host,
\* the run fails before the first phase on that group (stop-agent) dispatches
\* anything: nothing is ever dispatched and the body never completes.
C14_EmptyGroupAborts ==
    (~IsHostProc /\ ntarget = 0) =>
        /\ log = <<>>
        /\ ~has_return_value

\* the log entries of the maintenance operations called on host h
MaintenanceOn(h) == {k \in DOMAIN log : h \in log[k].hosts /\ log[k].op \in Range(MaintenanceOrder)}

StepOf(op) == CHOOSE j \in DOMAIN MaintenanceOrder : MaintenanceOrder[j] = op

\* C15: in the db procedures the maintenance operations are called on a host
\* in the order drain, stop, start, wait_until_ready, upgradesstables, each
\* after the previous one has returned on that host; once step j has failed on
\* a host no later step is called on it, and in db upgrade the sub-sequence is
\* not started on any later host.
C15_MaintenanceSteps ==
    TargetRole(proc) = "db" =>
        /\ \A h \in DbSet : \A k \in MaintenanceOn(h) :
              log[k].op = MaintenanceOrder[Cardinality({j \in MaintenanceOn(h) : j <= k})]
        /\ \A i \in DOMAIN jobs :
              (InBody /\ Body[pc].task = upgrade_host_internal /\ jobs[i].st \in {"running", "ready"}) =>
                  /\ Cardinality(MaintenanceOn(jobs[i].host))
                        = IF jobs[i].st = "running" THEN jobs[i].step ELSE jobs[i].step - 1
                  /\ \A f \in failed : f.host # jobs[i].host
        /\ \A f \in failed : f.op \in Range(MaintenanceOrder) =>
              /\ Cardinality(MaintenanceOn(f.host)) = StepOf(f.op)
              /\ proc = "db.upgrade" =>
                    \A h \in DbSet :
                        IndexOf(h, RoleHosts("db", ntarget)) > IndexOf(f.host, RoleHosts("db", ntarget))
                            => MaintenanceOn(h) = {}

C15_Witness ==
    /\ proc = "db.upgrade"
    /\ ntarget >= 2
    /\ status = "aborted"
    /\ [stmt |-> 5, op |-> "db.start", host |-> <<"db", 1>>] \in failed
    /\ Len(log) = 6

\* C16: search upgrade shuts the whole cluster down: puppet.run and
\* search.start are called on a search host only after search.stop has been
\* called on every host of the search group and has returned on all of them.
C16_FullShutdown ==
    proc = "search.upgrade" =>
        \A k \in Entries({"puppet.run", "search.start"}) :
            /\ log[k].hosts \subseteq SearchSet
            /\ \E j \in Entries({"search.stop"}) :
                  /\ j < k
                  /\ log[j].hosts = SearchSet
                  /\ log[j].n = ntarget
                  /\ log[j].stmt < pc
            /\ \A f \in failed : f.op # "search.stop"
            /\ \A i \in DOMAIN jobs : jobs[i].st = "running" => CurOp(i) # "search.stop"

C16_Witness ==
    /\ proc = "search.upgrade"
    /\ ntarget >= 2
    /\ InExecute
    /\ log # <<>>
    /\ Last(log).op = "puppet.run"
    /\ Last(log).hosts = {<<"search", 2>>}
    /\ jobs[2].st = "running"

\* C17: in search upgrade_host with one target host, the hilary operations
\* are called only with rebuild_index on, only on hilary_reboot_host (not the
\* target host), in the order stop, start, wait_until_ready, after search.start
\* has returned and before puppet.start is called; every other operation is
\* called on the target host only.
C17_RebootHostBounce ==
    (proc = "search.upgrade_host" /\ Len(env_hosts) = 1) =>
        /\ \A k \in DOMAIN log : log[k].op \notin HilaryOps =>
              log[k].hosts = {env_hosts[1]} /\ log[k].n = 1
        /\ \A k \in Entries(HilaryOps) :
              /\ opts.rebuild_index
              /\ log[k].hosts = {opts.hilary_reboot_host}
              /\ log[k].n = 1
              /\ env_hosts[1] \notin log[k].hosts
              /\ \E j \in Entries({"search.start"}) : j < k /\ log[j].stmt < pc
              /\ \A j \in Entries({"puppet.start"}) : k < j
        /\ \A k \in Entries({"hilary.start"}) : Entries({"hilary.stop"}) = {k - 1}
        /\ \A k \in Entries({"hilary.wait_until_ready"}) : Entries({"hilary.start"}) = {k - 1}
        /\ opts.rebuild_index =>
              \A k \in Entries({"puppet.start"}) :
                  Entries({"hilary.wait_until_ready"}) = {k - 1} /\ log[k - 1].stmt < pc

C17_Witness ==
    /\ proc = "search.upgrade_host"
    /\ Len(env_hosts) = 1
    /\ opts.rebuild_index
    /\ opts.hilary_reboot_host = <<"app", 1>>
    /\ Done
    /\ Entries(HilaryOps) # {}

\* the hosts operation op was called on
HostsOf(op) == UNION {log[k].hosts : k \in Entries({op})}

\* C18: every run either aborts on a failure or terminates, and when it has
\* terminated the last operation called is puppet.start, called exactly once
\* on every host puppet.stop was called on.
C18_TerminatesWithPuppetStart ==
    /\ <>(Done \/ status = "aborted")
    /\ [](Done =>
            /\ log # <<>>
            /\ Last(log).op = "puppet.start"
            /\ Entries({"puppet.start"}) = {Len(log)}
            /\ Entries({"puppet.stop"}) = {1}
            /\ Last(log).hosts = log[1].hosts
            /\ Last(log).n = Cardinality(log[1].hosts)
            /\ failed = {})

C18_Witness ==
    /\ Done
    /\ proc = "search.upgrade"
    /\ ntarget >= 2
    /\ opts.rebuild_index
    /\ Last(log).op = "puppet.start"
    /\ Last(log).hosts = SearchSet

\* C19: once the body of the procedure has run, a further call of the task in
\* the same fab run returns without running it: no step after that dispatches
\* an operation, calls ensure_sudo_pass or enters the body.
C19_RunsOnce ==
    [][has_return_value =>
         /\ has_return_value'
         /\ status' = "main"
         /\ log' = log
         /\ jobs' = jobs
         /\ cred_calls' = cred_calls]_vars

C19_Witness ==
    /\ Len(env_hosts) = 2
    /\ inv = 3
    /\ Done
    /\ has_return_value
    /\ cred_calls = 1
    /\ log # <<>>

====
